---- MODULE Spec2Model ----
(***************************************************************************)
(* unbytes: a forward-only cursor (Reader) over an immutable Bytes buffer. *)
(* The cursor is the pair (index, inner) of src/src/lib.rs.  Every public  *)
(* method is an operator from a Reader value to an outcome (result kind,   *)
(* new index, returned data) and an action that applies it to the Reader   *)
(* held in the variables and records the call in `call`.                   *)
(*                                                                         *)
(* usize is modelled with WordBits bits.  An overflowing `+` on usize      *)
(* panics in a build with overflow checks (the debug profile) and wraps    *)
(* modulo 2^WordBits otherwise (the release profile); which build runs is  *)
(* chosen once, in Init.                                                   *)
(***************************************************************************)
EXTENDS Integers, Sequences, FiniteSets, TLC

\* Width of usize in the model, in bits.
WordBits == 3
\* Longest source buffer.
MaxLen == 2

\* Sample of u8 values stored in the source: both ends of the range and a
\* value whose top bit is clear.
ByteVals == {0, 1, 255}

VARIABLES
    index,            \* Reader.index
    inner,            \* Reader.inner, a Bytes: [store, data]
    live,             \* FALSE once read_to_end(self) has moved the Reader away
    overflow_checks,  \* TRUE: the build panics on usize overflow; FALSE: it wraps
    panicked,         \* TRUE once a call has panicked
    call,             \* the last call: operation, argument, index before, outcome
    got,              \* the bytes the reads have returned so far, in call order
    other,            \* a second Reader (a clone's or a sub-cursor), or NoReader
    ocall,            \* the last call on `other`, when it was the last call made
    born              \* where `other` was cut out of the source: [at, len]

vars == <<index, inner, live, overflow_checks, panicked, call, got, other,
          ocall, born>>

----------------------------------------------------------------------------
(* usize *)

Word == 2 ^ WordBits
USIZE_MAX == Word - 1
Usize == 0 .. USIZE_MAX

Min(a, b) == IF a <= b THEN a ELSE b

\* a + b on usize: panics under overflow checks, wraps without them.
UsizeAdd(a, b) ==
    IF a + b > USIZE_MAX
    THEN IF overflow_checks
         THEN [panic |-> TRUE, val |-> 0]
         ELSE [panic |-> FALSE, val |-> (a + b) % Word]
    ELSE [panic |-> FALSE, val |-> a + b]

\* a.saturating_sub(b)
SaturatingSub(a, b) == IF b > a THEN 0 ELSE a - b

----------------------------------------------------------------------------
(* Bytes (the bytes crate), as the Reader uses it.  A Bytes is a view      *)
(* [store, data]: store names the storage it keeps alive ("src" for the    *)
(* buffer the Reader was built over, "static" for a static slice).         *)

EMPTY_SLICE == <<>>

BytesFromStatic(s) == [store |-> "static", data |-> s]

BytesLen(b) == Len(b.data)

\* b[i] with a 0-based i; out of bounds panics.
BytesIndex(b, i) ==
    IF i < BytesLen(b)
    THEN [panic |-> FALSE, byte |-> b.data[i + 1]]
    ELSE [panic |-> TRUE, byte |-> 0]

\* b.slice(begin..end): panics unless begin <= end <= len; an empty range
\* gives a Bytes that keeps no storage.
BytesSlice(b, begin, end) ==
    IF begin > end \/ end > BytesLen(b)
    THEN [panic |-> TRUE, bytes |-> BytesFromStatic(EMPTY_SLICE)]
    ELSE IF begin = end
         THEN [panic |-> FALSE, bytes |-> BytesFromStatic(EMPTY_SLICE)]
         ELSE [panic |-> FALSE,
               bytes |-> [store |-> b.store,
                          data |-> SubSeq(b.data, begin + 1, end)]]

\* &b[begin..end]: the borrowed slice; panics unless begin <= end <= len.
SliceIndex(b, begin, end) ==
    IF begin > end \/ end > BytesLen(b)
    THEN [panic |-> TRUE, data |-> <<>>]
    ELSE [panic |-> FALSE, data |-> SubSeq(b.data, begin + 1, end)]

----------------------------------------------------------------------------
(* Reader *)

\* Reader::new(bytes) and From<Bytes>
ReaderNew(bytes) == [index |-> 0, inner |-> bytes]

\* The value a call that returns no Reader leaves in the `sub` field.
NoReader == [index |-> 0, inner |-> [store |-> "none", data |-> <<>>]]

\* An outcome: res is "ok", "err" (EndOfInput) or "panic"; index is the
\* Reader's index after the call; the other fields are the returned value.
Outcome(res, idx) ==
    [res |-> res, index |-> idx, val |-> <<>>, store |-> "none",
     flag |-> FALSE, num |-> 0, sub |-> NoReader]

Panic(self) == Outcome("panic", self.index)
EndOfInput(self) == Outcome("err", self.index)

\* fn increment(&mut self, amt): the new index, or a panic.
IncrementWrongClamp(self, amt) ==
    LET sum == UsizeAdd(self.index, amt)
    IN  IF sum.panic THEN [panic |-> TRUE, index |-> self.index]
        ELSE [panic |-> FALSE, index |-> sum.val]

Increment(self, amt) ==
    LET sum == UsizeAdd(self.index, amt)
    IN  IF sum.panic THEN [panic |-> TRUE, index |-> self.index]
        ELSE [panic |-> FALSE, index |-> Min(sum.val, BytesLen(self.inner))]

\* remaining() that forgets the bytes already read.
RemainingIgnoresIndex(self) == BytesLen(self.inner)

Remaining(self) == SaturatingSub(BytesLen(self.inner), self.index)

\* has_remaining with a strict comparison.
HasRemainingStrict(self, len) == Remaining(self) > len

HasRemaining(self, len) == Remaining(self) >= len

Consumed(self) == self.index

SkipOn(self, amt) ==
    LET inc == Increment(self, amt)
    IN  IF inc.panic THEN Panic(self) ELSE Outcome("ok", inc.index)

PeekOn(self, val) ==
    IF ~HasRemaining(self, 1) THEN Outcome("ok", self.index)
    ELSE LET at == UsizeAdd(self.index, 1)
         IN  IF at.panic THEN Panic(self)
             ELSE LET b == BytesIndex(self.inner, at.val)
                  IN  IF b.panic THEN Panic(self)
                      ELSE [Outcome("ok", self.index) EXCEPT
                                !.flag = (b.byte = val)]

\* read_to_end that returns the whole buffer, read bytes included.
ReadToEndFromStart(self) ==
    IF self.index = BytesLen(self.inner)
    THEN [Outcome("ok", self.index) EXCEPT
              !.val = EMPTY_SLICE, !.store = "static"]
    ELSE [Outcome("ok", self.index) EXCEPT
              !.val = self.inner.data, !.store = self.inner.store]

ReadToEndOn(self) ==
    IF self.index = BytesLen(self.inner)
    THEN [Outcome("ok", self.index) EXCEPT
              !.val = EMPTY_SLICE, !.store = "static"]
    ELSE LET s == BytesSlice(self.inner, self.index, BytesLen(self.inner))
         IN  IF s.panic THEN Panic(self)
             ELSE [Outcome("ok", self.index) EXCEPT
                       !.val = s.bytes.data, !.store = s.bytes.store]

\* read_byte that advances before it reads.
ReadByteAfterIncrement(self) ==
    IF ~HasRemaining(self, 1) THEN EndOfInput(self)
    ELSE LET inc == Increment(self, 1)
             r == BytesIndex(self.inner, inc.index)
         IN  IF inc.panic THEN Panic(self)
             ELSE IF r.panic THEN Outcome("panic", inc.index)
             ELSE [Outcome("ok", inc.index) EXCEPT
                       !.val = <<r.byte>>, !.store = "copied",
                       !.num = r.byte]

ReadByteOn(self) ==
    IF ~HasRemaining(self, 1) THEN EndOfInput(self)
    ELSE LET r == BytesIndex(self.inner, self.index)
             inc == Increment(self, 1)
         IN  IF r.panic \/ inc.panic THEN Panic(self)
             ELSE [Outcome("ok", inc.index) EXCEPT
                       !.val = <<r.byte>>, !.store = "copied",
                       !.num = r.byte]

\* read_bytes that slices 0..len instead of old_idx..old_idx+len.
ReadBytesFromStart(self, len) ==
    IF ~HasRemaining(self, len) THEN EndOfInput(self)
    ELSE LET inc == Increment(self, len)
         IN  IF inc.panic THEN Panic(self)
             ELSE LET s == BytesSlice(self.inner, 0, len)
                  IN  IF s.panic THEN Outcome("panic", inc.index)
                      ELSE [Outcome("ok", inc.index) EXCEPT
                                !.val = s.bytes.data,
                                !.store = s.bytes.store]

ReadBytesOn(self, len) ==
    IF ~HasRemaining(self, len) THEN EndOfInput(self)
    ELSE LET old_idx == self.index
             inc == Increment(self, len)
             end == UsizeAdd(old_idx, len)
         IN  IF inc.panic THEN Panic(self)
             ELSE IF end.panic THEN Outcome("panic", inc.index)
             ELSE LET s == BytesSlice(self.inner, old_idx, end.val)
                  IN  IF s.panic THEN Outcome("panic", inc.index)
                      ELSE [Outcome("ok", inc.index) EXCEPT
                                !.val = s.bytes.data,
                                !.store = s.bytes.store]

ReadSliceOn(self, len) ==
    IF ~HasRemaining(self, len) THEN EndOfInput(self)
    ELSE LET old_idx == self.index
             inc == Increment(self, len)
             end == UsizeAdd(old_idx, len)
         IN  IF inc.panic THEN Panic(self)
             ELSE IF end.panic THEN Outcome("panic", inc.index)
             ELSE LET s == SliceIndex(self.inner, old_idx, end.val)
                  IN  IF s.panic THEN Outcome("panic", inc.index)
                      ELSE [Outcome("ok", inc.index) EXCEPT
                                !.val = s.data, !.store = "borrowed"]

\* read_array that, short of N bytes, consumes what is left before it fails.
ReadArrayPartial(self, N) ==
    IF ~HasRemaining(self, N) THEN Outcome("err", BytesLen(self.inner))
    ELSE [ReadSliceOn(self, N) EXCEPT !.store = "copied"]

\* read_array::<N>(): read_slice(N)?, then copy_from_slice, which panics
\* when the two lengths differ.
ReadArrayOn(self, N) ==
    LET slice == ReadSliceOn(self, N)
    IN  IF slice.res # "ok" THEN slice
        ELSE IF Len(slice.val) # N THEN Outcome("panic", slice.index)
        ELSE [slice EXCEPT !.store = "copied"]

\* subreader without the len == 0 check.
SubreaderNoZeroCheck(self, len) ==
    LET b == ReadBytesOn(self, len)
    IN  IF b.res # "ok" THEN b
        ELSE [Outcome("ok", b.index) EXCEPT
                  !.sub = ReaderNew([store |-> b.store, data |-> b.val])]

\* subreader that hands out a Reader over the whole parent buffer.
SubreaderWholeSource(self, len) ==
    IF len = 0 THEN EndOfInput(self)
    ELSE LET b == ReadBytesOn(self, len)
         IN  IF b.res # "ok" THEN b
             ELSE [Outcome("ok", b.index) EXCEPT !.sub = ReaderNew(self.inner)]

SubreaderOn(self, len) ==
    IF len = 0 THEN EndOfInput(self)
    ELSE LET b == ReadBytesOn(self, len)
         IN  IF b.res # "ok" THEN b
             ELSE [Outcome("ok", b.index) EXCEPT
                       !.sub = ReaderNew([store |-> b.store, data |-> b.val])]

\* impl std::io::Read: the bytes copied into buf[..amt], and the count the
\* call reports in num.
IoReadOn(self, buflen) ==
    LET amt == Min(Remaining(self), buflen)
    IN  IF amt = 0 THEN Outcome("ok", self.index)
        ELSE LET s == ReadSliceOn(self, amt)
             IN  IF s.res = "err" THEN Panic(self)
                 ELSE IF s.res = "panic" THEN s
                 ELSE IF Len(s.val) # amt THEN Outcome("panic", s.index)
                 ELSE [s EXCEPT !.store = "copied", !.num = 0]

----------------------------------------------------------------------------
(* Integer readers (ints.rs) *)

IntSizes == {2, 4, 8, 16}

\* transmute::<u8, i8>
TransmuteI8(b) == IF b >= 128 THEN b - 256 ELSE b

RECURSIVE FromBeBytes(_)
FromBeBytes(arr) ==
    IF arr = <<>> THEN 0
    ELSE arr[Len(arr)] + 256 * FromBeBytes(SubSeq(arr, 1, Len(arr) - 1))

\* iN::from_be_bytes: the two's complement reading, whose top byte is signed.
FromBeBytesSigned(arr) ==
    IF arr = <<>> THEN 0
    ELSE TransmuteI8(arr[1]) * (256 ^ (Len(arr) - 1)) + FromBeBytes(Tail(arr))

ReadU8On(self) == ReadByteOn(self)

ReadI8On(self) ==
    LET b == ReadU8On(self)
    IN  IF b.res # "ok" THEN b ELSE [b EXCEPT !.num = TransmuteI8(b.num)]

\* impl_reader_fn!(uN, size, read_uN)
ReadUnsignedOn(self, size) ==
    LET a == ReadArrayOn(self, size)
    IN  IF a.res # "ok" THEN a ELSE [a EXCEPT !.num = FromBeBytes(a.val)]

\* impl_reader_fn!(iN, size, read_iN)
ReadSignedOn(self, size) ==
    LET a == ReadArrayOn(self, size)
    IN  IF a.res # "ok" THEN a ELSE [a EXCEPT !.num = FromBeBytesSigned(a.val)]

----------------------------------------------------------------------------
(* ReaderMayPanic (maypanic.rs): a borrow of the Reader *)

MayPanicRemaining(self) == Remaining(self)

AdvanceOn(self, cnt) ==
    LET inc == Increment(self, cnt)
    IN  IF inc.panic THEN Panic(self) ELSE Outcome("ok", inc.index)

\* copy_to_bytes that hands back what is left instead of unwrapping.
CopyToBytesClamped(self, len) ==
    ReadBytesOn(self, Min(len, Remaining(self)))

\* self.read_bytes(len).unwrap()
CopyToBytesOn(self, len) ==
    LET b == ReadBytesOn(self, len)
    IN  IF b.res = "err" THEN Panic(self) ELSE b

----------------------------------------------------------------------------
(* Decode and DecodeEndian (decode.rs).  The reader argument is anything   *)
(* that is AsMut<Reader>; as_mut() hands out the Reader itself.            *)

RECURSIVE FromLeBytes(_)
FromLeBytes(arr) ==
    IF arr = <<>> THEN 0
    ELSE arr[1] + 256 * FromLeBytes(Tail(arr))

\* iN::from_le_bytes: the last byte is the top one, and signed.
FromLeBytesSigned(arr) ==
    IF arr = <<>> THEN 0
    ELSE TransmuteI8(arr[Len(arr)]) * (256 ^ (Len(arr) - 1))
             + FromLeBytes(SubSeq(arr, 1, Len(arr) - 1))

\* impl Decode for u8
DecodeU8On(self) == ReadByteOn(self)

\* impl Decode for i8
DecodeI8On(self) ==
    LET b == ReadByteOn(self)
    IN  IF b.res # "ok" THEN b ELSE [b EXCEPT !.num = TransmuteI8(b.num)]

\* decode_be that reassembles in little-endian order.
DecodeBeAsLe(self, size, signed) ==
    LET array == ReadArrayOn(self, size)
    IN  IF array.res # "ok" THEN array
        ELSE [array EXCEPT !.num = IF signed THEN FromLeBytesSigned(array.val)
                                     ELSE FromLeBytes(array.val)]

\* decode_endian_impl!: decode_be, for the unsigned and the signed types
DecodeBeOn(self, size, signed) ==
    LET array == ReadArrayOn(self, size)
    IN  IF array.res # "ok" THEN array
        ELSE [array EXCEPT !.num = IF signed THEN FromBeBytesSigned(array.val)
                                     ELSE FromBeBytes(array.val)]

\* decode_le that reassembles in big-endian order.
DecodeLeAsBe(self, size, signed) == DecodeBeOn(self, size, signed)

\* decode_endian_impl!: decode_le
DecodeLeOn(self, size, signed) ==
    LET array == ReadArrayOn(self, size)
    IN  IF array.res # "ok" THEN array
        ELSE [array EXCEPT !.num = IF signed THEN FromLeBytesSigned(array.val)
                                     ELSE FromLeBytes(array.val)]

\* decode_ne: decode_le on a little-endian target.  The big-endian branch
\* calls decode_bee, which no type defines, so no big-endian build exists.
DecodeNeOn(self, size, signed) == DecodeLeOn(self, size, signed)

----------------------------------------------------------------------------
(* The state machine *)

\* The Reader held in the variables.
Self == [index |-> index, inner |-> inner]

Sources == UNION {[1 .. n -> ByteVals] : n \in 0 .. MaxLen}

NoCall ==
    [op |-> "new", arg |-> 0, pre |-> 0, res |-> "ok", val |-> <<>>,
     store |-> "none", flag |-> FALSE, num |-> 0, sub |-> NoReader]

\* The reads whose returned bytes `got` collects.
ByteReads == {"read_byte", "read_u8", "read_bytes", "read_slice", "read_array"}

\* Nothing returned yet; clean says that only ByteReads were called so far.
NothingGot == [clean |-> TRUE, bytes |-> <<>>]

\* `got` after a call: the returned bytes are appended while only ByteReads
\* have been called; any other call ends the collection.
GotAfter(op, out) ==
    IF got.clean /\ op \in ByteReads
    THEN IF out.res = "ok"
         THEN [clean |-> TRUE, bytes |-> got.bytes \o out.val]
         ELSE got
    ELSE [clean |-> FALSE, bytes |-> <<>>]

\* `other` was not cut out of the source.
NoBirth == [at |-> 0, len |-> 0]

\* After Reader::new(bytes) over the source s, in either build.
InitOver(s) ==
    /\ inner = [store |-> "src", data |-> s]
    /\ index = ReaderNew(inner).index
    /\ live = TRUE
    /\ overflow_checks \in BOOLEAN
    /\ panicked = FALSE
    /\ call = NoCall
    /\ got = NothingGot
    /\ ocall = NoCall
    /\ born = NoBirth

\* A single Reader.
Init ==
    /\ \E s \in Sources : InitOver(s)
    /\ other = NoReader

\* One call on the Reader: its outcome becomes the new state and is recorded.
Do(op, arg, out) ==
    /\ live
    /\ ~panicked
    /\ index' = out.index
    /\ panicked' = (out.res = "panic")
    /\ call' = [op |-> op, arg |-> arg, pre |-> index, res |-> out.res,
                val |-> out.val, store |-> out.store, flag |-> out.flag,
                num |-> out.num, sub |-> out.sub]
    /\ got' = GotAfter(op, out)
    /\ UNCHANGED <<inner, overflow_checks, other, ocall, born>>

Skip == \E amt \in Usize :
    Do("skip", amt, SkipOn(Self, amt)) /\ UNCHANGED live

Peek == \E val \in ByteVals :
    Do("peek", val, PeekOn(Self, val)) /\ UNCHANGED live

\* read_to_end(self) takes the Reader by value: no call can follow it.
ReadToEnd ==
    Do("read_to_end", 0, ReadToEndOn(Self)) /\ live' = FALSE

Subreader == \E len \in Usize :
    Do("subreader", len, SubreaderOn(Self, len)) /\ UNCHANGED live

ReadByte ==
    Do("read_byte", 1, ReadByteOn(Self)) /\ UNCHANGED live

ReadBytes == \E len \in Usize :
    Do("read_bytes", len, ReadBytesOn(Self, len)) /\ UNCHANGED live

ReadSlice == \E len \in Usize :
    Do("read_slice", len, ReadSliceOn(Self, len)) /\ UNCHANGED live

ReadArray == \E N \in Usize :
    Do("read_array", N, ReadArrayOn(Self, N)) /\ UNCHANGED live

IoRead == \E buflen \in Usize :
    Do("io_read", buflen, IoReadOn(Self, buflen)) /\ UNCHANGED live

ReadU8 ==
    Do("read_u8", 1, ReadU8On(Self)) /\ UNCHANGED live

ReadI8 ==
    Do("read_i8", 1, ReadI8On(Self)) /\ UNCHANGED live

ReadUnsigned == \E size \in IntSizes :
    Do("read_uN", size, ReadUnsignedOn(Self, size)) /\ UNCHANGED live

ReadSigned == \E size \in IntSizes :
    Do("read_iN", size, ReadSignedOn(Self, size)) /\ UNCHANGED live

Advance == \E cnt \in Usize :
    Do("advance", cnt, AdvanceOn(Self, cnt)) /\ UNCHANGED live

CopyToBytes == \E len \in Usize :
    Do("copy_to_bytes", len, CopyToBytesOn(Self, len)) /\ UNCHANGED live

Next ==
    \/ Skip
    \/ Peek
    \/ ReadToEnd
    \/ Subreader
    \/ ReadByte
    \/ ReadBytes
    \/ ReadSlice
    \/ ReadArray
    \/ IoRead
    \/ ReadU8
    \/ ReadI8
    \/ ReadUnsigned
    \/ ReadSigned
    \/ Advance
    \/ CopyToBytes

Spec == Init /\ [][Next]_vars

----------------------------------------------------------------------------
(* The Reader with the Decode layer on top.  Besides the sources of Init,  *)
(* the Reader is built over four-byte buffers, which the 32-bit types      *)
(* decode; their first and last bytes are below 128, so that every decoded *)
(* value is below 2^31.                                                    *)

WideSources == {<<1, 2, 3, 4>>, <<0, 255, 128, 1>>, <<127, 0, 255, 127>>}

InitDecode ==
    /\ \E s \in Sources \cup WideSources : InitOver(s)
    /\ other = NoReader

\* The operation name a decode call is recorded under.
DecodeOp(name, signed) == IF signed THEN name \o "_i" ELSE name \o "_u"

DecodeU8 ==
    Do("decode_u8", 1, DecodeU8On(Self)) /\ UNCHANGED live

DecodeI8 ==
    Do("decode_i8", 1, DecodeI8On(Self)) /\ UNCHANGED live

DecodeLe == \E size \in IntSizes, signed \in BOOLEAN :
    Do(DecodeOp("decode_le", signed), size, DecodeLeOn(Self, size, signed))
        /\ UNCHANGED live

DecodeBe == \E size \in IntSizes, signed \in BOOLEAN :
    Do(DecodeOp("decode_be", signed), size, DecodeBeOn(Self, size, signed))
        /\ UNCHANGED live

DecodeNe == \E size \in IntSizes, signed \in BOOLEAN :
    Do(DecodeOp("decode_ne", signed), size, DecodeNeOn(Self, size, signed))
        /\ UNCHANGED live

NextDecode ==
    \/ Next
    \/ DecodeU8
    \/ DecodeI8
    \/ DecodeLe
    \/ DecodeBe
    \/ DecodeNe

SpecDecode == InitDecode /\ [][NextDecode]_vars

----------------------------------------------------------------------------
(* Two Readers.  `other` is a second Reader: the first sub-cursor that     *)
(* subreader returned (later sub-cursors are dropped by the caller).       *)
(* Calls on the two are interleaved freely.                                *)

PairOps ==
    {"skip", "peek", "read_byte", "read_bytes", "read_slice", "read_array",
     "subreader"}

\* The lengths asked for: each one up to one past the longest source, and
\* the largest usize.
PairLens == (0 .. MaxLen + 1) \cup {USIZE_MAX}

PairArgs(op) ==
    IF op = "peek" THEN ByteVals ELSE IF op = "read_byte" THEN {1} ELSE PairLens

\* The method `op` called on the Reader `self`.
Apply(op, self, arg) ==
    CASE op = "skip" -> SkipOn(self, arg)
      [] op = "peek" -> PeekOn(self, arg)
      [] op = "read_byte" -> ReadByteOn(self)
      [] op = "read_bytes" -> ReadBytesOn(self, arg)
      [] op = "read_slice" -> ReadSliceOn(self, arg)
      [] op = "read_array" -> ReadArrayOn(self, arg)
      [] op = "subreader" -> SubreaderOn(self, arg)

Record(op, arg, pre, out) ==
    [op |-> op, arg |-> arg, pre |-> pre, res |-> out.res, val |-> out.val,
     store |-> out.store, flag |-> out.flag, num |-> out.num, sub |-> out.sub]

\* A call on (index, inner).  The first Reader that subreader returns is
\* kept as `other`.
DoMain(op, arg, out) ==
    LET keep == other = NoReader /\ op = "subreader" /\ out.res = "ok"
    IN  /\ live
        /\ ~panicked
        /\ index' = out.index
        /\ panicked' = (out.res = "panic")
        /\ call' = Record(op, arg, index, out)
        /\ got' = GotAfter(op, out)
        /\ other' = IF keep THEN out.sub ELSE other
        /\ born' = IF keep THEN [at |-> index, len |-> arg] ELSE born
        /\ ocall' = NoCall
        /\ UNCHANGED <<inner, overflow_checks, live>>

\* A call on `other`: a &mut self method assigns self.index and nothing else.
DoOther(op, arg, out) ==
    /\ other # NoReader
    /\ ~panicked
    /\ other' = [other EXCEPT !.index = out.index]
    /\ panicked' = (out.res = "panic")
    /\ ocall' = Record(op, arg, other.index, out)
    /\ call' = NoCall
    /\ UNCHANGED <<index, inner, live, overflow_checks, got, born>>

MainCall == \E op \in PairOps : \E arg \in PairArgs(op) :
    DoMain(op, arg, Apply(op, Self, arg))

OtherCall == \E op \in PairOps : \E arg \in PairArgs(op) :
    DoOther(op, arg, Apply(op, other, arg))

NextTwo ==
    \/ MainCall
    \/ OtherCall

\* A Reader and the sub-cursor it hands out.
SpecSub == Init /\ [][NextTwo]_vars

----------------------------------------------------------------------------
(* The claims.  They are stated over the recorded call and the source      *)
(* bytes themselves: SrcLen and Src are plain sequence arithmetic, not the *)
(* Reader's own remaining()/slice operators.                               *)

SrcLen == Len(inner.data)

\* source[p .. p+n)
Src(p, n) == SubSeq(inner.data, p + 1, p + n)

\* remaining() as it was before the recorded call
PreRemaining == SrcLen - call.pre

BoundedReads == {"read_byte", "read_bytes", "read_slice", "read_array", "subreader"}

\* Every method of Reader itself; advance and copy_to_bytes belong to
\* ReaderMayPanic and io_read to the std::io::Read bridge.
CoreOps ==
    {"skip", "peek", "read_to_end", "subreader", "read_byte", "read_bytes",
     "read_slice", "read_array", "read_u8", "read_i8", "read_uN", "read_iN"}

\* C1: a bounds-checked read (read_byte, read_bytes, read_slice, read_array,
\* subreader) asked for more than remaining() returns EndOfInput and leaves
\* consumed() as it was; every such read either succeeds and advances by
\* exactly the requested length or fails and advances by nothing.
C1_AllOrNothing ==
    call.op \in BoundedReads =>
        /\ call.arg > PreRemaining => (call.res = "err" /\ index = call.pre)
        /\ \/ call.res = "ok" /\ index = call.pre + call.arg
           \/ call.res = "err" /\ index = call.pre

C1_Witness ==
    /\ call.op = "read_bytes"
    /\ call.pre >= 1
    /\ call.arg = PreRemaining + 1
    /\ call.res = "err"
    /\ index = call.pre

\* C2: read_bytes(n), read_slice(n) and read_array::<n>() with
\* n <= remaining() succeed, return exactly the n bytes source[p .. p+n) and
\* leave consumed() = p + n.
C2_SuccessfulRead ==
    (call.op \in {"read_bytes", "read_slice", "read_array"}
        /\ call.arg <= PreRemaining) =>
        /\ call.res = "ok"
        /\ Len(call.val) = call.arg
        /\ call.val = Src(call.pre, call.arg)
        /\ index = call.pre + call.arg

C2_Witness ==
    /\ call.op = "read_bytes"
    /\ call.pre >= 1
    /\ call.arg >= 1
    /\ call.res = "ok"
    /\ call.val = Src(call.pre, call.arg)

\* C3: after construction and after every operation 0 <= index <= source
\* length, so remaining() + consumed() = source length and remaining()
\* never saturates.
C3_BoundsInvariant ==
    /\ 0 <= index
    /\ index <= SrcLen
    /\ Remaining(Self) + Consumed(Self) = SrcLen

C3_Witness ==
    /\ call.op = "skip"
    /\ call.pre + call.arg > SrcLen
    /\ call.res = "ok"
    /\ SrcLen >= 1

\* C4: consumed() after an operation of Reader is never smaller than before
\* it, whatever the argument, skip(n) with a large n included.
C4_ForwardOnly ==
    call.op \in CoreOps => index >= call.pre

\* C5: skip(n) completes without error or abort and leaves the position at
\* min(p + n, source length), p + n being the mathematical sum.
C5_SkipClamps ==
    call.op = "skip" =>
        /\ call.res = "ok"
        /\ index = Min(call.pre + call.arg, SrcLen)

\* C6: peek(val) is true exactly when a byte remains and the byte at the
\* current position equals val, and peek never moves the position.
C6_PeekNextByte ==
    call.op = "peek" =>
        /\ call.res = "ok"
        /\ index = call.pre
        /\ call.flag = (call.pre < SrcLen /\ inner.data[call.pre + 1] = call.arg)

\* C7: no operation of Reader outside the escape hatch aborts.
C7_PanicFree ==
    call.op \in CoreOps => call.res # "panic"

\* C8: subreader(0) returns EndOfInput, also when bytes remain, and leaves
\* the parent's position unchanged.
C8_SubreaderZero ==
    (call.op = "subreader" /\ call.arg = 0) =>
        (call.res = "err" /\ index = call.pre /\ call.sub = NoReader)

C8_Witness ==
    /\ call.op = "subreader"
    /\ call.arg = 0
    /\ PreRemaining >= 1
    /\ call.res = "err"

\* C9: subreader(len) with 1 <= len <= remaining() succeeds, advances the
\* parent to p + len and returns a Reader with consumed() = 0,
\* remaining() = len and content source[p .. p+len).
C9_SuccessfulSubreader ==
    (call.op = "subreader" /\ 1 <= call.arg /\ call.arg <= PreRemaining) =>
        /\ call.res = "ok"
        /\ index = call.pre + call.arg
        /\ call.sub.index = 0
        /\ Len(call.sub.inner.data) - call.sub.index = call.arg
        /\ call.sub.inner.data = Src(call.pre, call.arg)

C9_Witness ==
    /\ call.op = "subreader"
    /\ call.pre >= 1
    /\ call.arg >= 1
    /\ call.res = "ok"
    /\ call.sub.inner.data = Src(call.pre, call.arg)

\* C10: read_to_end returns exactly source[p .. source length); at
\* p = source length the result is the empty static instance, not a view of
\* the original storage.
C10_ReadToEnd ==
    call.op = "read_to_end" =>
        /\ call.res = "ok"
        /\ Len(call.val) = PreRemaining
        /\ call.val = Src(call.pre, PreRemaining)
        /\ call.pre = SrcLen => (call.val = <<>> /\ call.store = "static")

C10_Witness ==
    /\ call.op = "read_to_end"
    /\ SrcLen >= 1
    /\ call.pre = SrcLen
    /\ call.res = "ok"
    /\ call.store = "static"

\* The Reader as it was before the recorded call.
PreSelf == [index |-> call.pre, inner |-> inner]

\* C11: io::Read::read(buf) copies the next k = min(remaining(), buf.len())
\* bytes into buf[0..k), advances by k and returns Ok(k).
C11_IoReadCount ==
    call.op = "io_read" =>
        LET k == Min(PreRemaining, call.arg)
        IN  /\ call.res = "ok"
            /\ call.val = Src(call.pre, k)
            /\ index = call.pre + k
            /\ call.num = k

\* C15: copy_to_bytes(len) aborts exactly when remaining() < len and
\* otherwise returns source[p .. p+len) and advances by len;
\* ReaderMayPanic::remaining() is the Reader's remaining(); advance(cnt)
\* moves the position as skip(cnt) does.
C15_EscapeHatch ==
    /\ MayPanicRemaining(Self) = SrcLen - index
    /\ call.op = "copy_to_bytes" =>
           /\ (call.res = "panic") <=> (PreRemaining < call.arg)
           /\ call.res = "panic" => index = call.pre
           /\ call.res # "panic" =>
                  /\ call.res = "ok"
                  /\ call.val = Src(call.pre, call.arg)
                  /\ index = call.pre + call.arg
    /\ call.op = "advance" =>
           /\ call.res = SkipOn(PreSelf, call.arg).res
           /\ index = SkipOn(PreSelf, call.arg).index

C15_Witness ==
    /\ call.op = "copy_to_bytes"
    /\ call.pre >= 1
    /\ call.arg = PreRemaining + 1
    /\ call.res = "panic"

\* C17: while only read_byte/read_u8, read_bytes, read_slice and read_array
\* have been called on a fresh Reader, the bytes they returned, in call
\* order, are source[0 .. consumed()), remaining() is source length minus
\* consumed(), and has_remaining(m) holds exactly for m <= remaining().
C17_GapFree ==
    got.clean =>
        /\ got.bytes = Src(0, index)
        /\ Remaining(Self) = SrcLen - Consumed(Self)
        /\ \A m \in Usize : HasRemaining(Self, m) <=> (m <= SrcLen - index)

C17_Witness ==
    /\ got.clean
    /\ call.op \in {"read_u8", "read_array"}
    /\ call.pre >= 1
    /\ call.res = "ok"
    /\ index = SrcLen
    /\ got.bytes = inner.data

\* C18: once remaining() = 0 it stays 0 after any further operation; there
\* read_byte fails, peek is false, every read of n >= 1 bytes fails and
\* skip(n) leaves consumed() at the source length.
C18_EndAbsorbing ==
    (call.op \in CoreOps /\ PreRemaining = 0) =>
        /\ index = SrcLen
        /\ call.op \in {"read_byte", "read_u8", "read_i8", "read_uN", "read_iN"}
               => call.res = "err"
        /\ (call.op \in {"read_bytes", "read_slice", "read_array", "subreader"}
               /\ call.arg >= 1) => call.res = "err"
        /\ call.op = "peek" => (call.res = "ok" /\ ~call.flag)

\* C20: read_bytes(0), read_slice(0) and read_array::<0>() succeed with an
\* empty result and leave the position unchanged in every state, the
\* exhausted one included; of the zero-length requests only subreader(0)
\* fails.
C20_ZeroLengthReads ==
    (call.op \in {"read_bytes", "read_slice", "read_array", "subreader"}
        /\ call.arg = 0) =>
        /\ index = call.pre
        /\ call.val = <<>>
        /\ (call.res = "err") <=> (call.op = "subreader")
        /\ call.op # "subreader" => call.res = "ok"

C20_Witness ==
    /\ call.op = "read_array"
    /\ call.arg = 0
    /\ SrcLen >= 1
    /\ PreRemaining = 0
    /\ call.res = "ok"

----------------------------------------------------------------------------
(* Claims about the typed decoders, checked under SpecDecode. *)

\* The sum of b[i] * 256^(k-1-i) (big-endian) or of b[i] * 256^i
\* (little-endian) over the 0-based positions i of the k bytes b.
RECURSIVE PositionalSum(_, _, _)
PositionalSum(b, i, bigEndian) ==
    IF i > Len(b) THEN 0
    ELSE b[i] * (256 ^ (IF bigEndian THEN Len(b) - i ELSE i - 1))
             + PositionalSum(b, i + 1, bigEndian)

\* v read as a two's complement number of the width of b, top being the
\* most significant byte.
TwosComplement(v, b, top) == IF top >= 128 THEN v - 256 ^ Len(b) ELSE v

Reversed(b) == [i \in 1 .. Len(b) |-> b[Len(b) + 1 - i]]

\* C12: over the k bytes b at the current position decode_be returns the
\* sum of b[i] * 256^(k-1-i) and decode_le the sum of b[i] * 256^i, as two's
\* complement for the signed types; decode_be over b is decode_le over the
\* reversed bytes; [1,2,3,4] is 0x01020304 big-endian and 0x04030201
\* little-endian.
C12_EndianReassembly ==
    (call.op \in {"decode_be_u", "decode_be_i", "decode_le_u", "decode_le_i"}
        /\ call.res = "ok") =>
        LET b == Src(call.pre, call.arg)
            be == PositionalSum(b, 1, TRUE)
            le == PositionalSum(b, 1, FALSE)
            rev == ReaderNew([store |-> "src", data |-> Reversed(b)])
        IN  /\ call.val = b
            /\ call.op = "decode_be_u" => call.num = be
            /\ call.op = "decode_be_i" => call.num = TwosComplement(be, b, b[1])
            /\ call.op = "decode_le_u" => call.num = le
            /\ call.op = "decode_le_i" =>
                   call.num = TwosComplement(le, b, b[Len(b)])
            /\ call.op = "decode_be_u" =>
                   call.num = DecodeLeOn(rev, call.arg, FALSE).num
            /\ call.op = "decode_be_i" =>
                   call.num = DecodeLeOn(rev, call.arg, TRUE).num
            /\ (b = <<1, 2, 3, 4>> /\ call.op = "decode_be_u")
                   => call.num = 16909060
            /\ (b = <<1, 2, 3, 4>> /\ call.op = "decode_le_u")
                   => call.num = 67305985

C12_Witness ==
    /\ call.op = "decode_le_u"
    /\ call.arg = 4
    /\ call.val = <<1, 2, 3, 4>>
    /\ call.num = 67305985

\* The recorded call ended as the outcome `out` does.
SameAs(out) ==
    /\ call.res = out.res
    /\ index = out.index
    /\ call.val = out.val
    /\ call.num = out.num

\* C13: read_T() and T::decode_be(reader), started from the same Reader
\* state, give the same result (the same value, or both EndOfInput) and
\* leave the same position, for the types of 2, 4, 8 and 16 bytes.
C13_ReadIsDecodeBe ==
    /\ call.op = "read_uN" => SameAs(DecodeBeOn(PreSelf, call.arg, FALSE))
    /\ call.op = "read_iN" => SameAs(DecodeBeOn(PreSelf, call.arg, TRUE))
    /\ call.op = "decode_be_u" => SameAs(ReadUnsignedOn(PreSelf, call.arg))
    /\ call.op = "decode_be_i" => SameAs(ReadSignedOn(PreSelf, call.arg))

C13_Witness ==
    /\ call.op = "decode_be_i"
    /\ call.res = "ok"
    /\ call.num < 0
    /\ call.num = ReadSignedOn(PreSelf, call.arg).num

TypedOps ==
    {"read_u8", "read_i8", "read_uN", "read_iN", "decode_u8", "decode_i8",
     "decode_le_u", "decode_le_i", "decode_be_u", "decode_be_i",
     "decode_ne_u", "decode_ne_i"}

\* C14: a typed decode or integer read of width k either succeeds and
\* advances consumed() by exactly k or, with fewer than k bytes remaining
\* (some but not enough included), returns EndOfInput and leaves consumed()
\* unchanged; it never yields a value in that case.
C14_TypedDecodeAtomic ==
    call.op \in TypedOps =>
        \/ /\ PreRemaining >= call.arg
           /\ call.res = "ok"
           /\ index = call.pre + call.arg
           /\ call.val = Src(call.pre, call.arg)
        \/ /\ PreRemaining < call.arg
           /\ call.res = "err"
           /\ index = call.pre
           /\ call.val = <<>>
           /\ call.num = 0

C14_Witness ==
    /\ call.op = "decode_le_u"
    /\ call.arg = 4
    /\ PreRemaining = 3
    /\ call.res = "err"
    /\ index = call.pre

----------------------------------------------------------------------------
(* Claims about two Readers. *)

\* A step is a call on (index, inner) when it leaves a record in call, and
\* a call on `other` when it leaves one in ocall.  No call of the one moves
\* or changes the other.
Disjoint ==
    /\ ocall' # NoCall => (index' = index /\ inner' = inner)
    /\ (call' # NoCall /\ other # NoReader) => other' = other

\* C19: once subreader(len) has succeeded, no call on the sub-cursor moves
\* or changes the parent and no call on the parent moves or changes the
\* sub-cursor; the sub-cursor holds source[p .. p+len) and a read that would
\* cross its end fails with EndOfInput, also when the parent's buffer has
\* bytes after that range.
C19_SubcursorIndependence ==
    /\ [](other # NoReader =>
            /\ other.inner.data = Src(born.at, born.len)
            /\ other.index <= born.len
            /\ (ocall.op \in BoundedReads /\ ocall.arg > born.len - ocall.pre)
                   => (ocall.res = "err" /\ other.index = ocall.pre))
    /\ [][Disjoint]_vars

C19_Witness ==
    /\ other # NoReader
    /\ born.len >= 1
    /\ ocall.op = "read_bytes"
    /\ ocall.arg > born.len - ocall.pre
    /\ born.at + ocall.pre + ocall.arg <= SrcLen
    /\ index < SrcLen
    /\ ocall.res = "err"

====
